---- MODULE Spec2Model ----
(***************************************************************************)
(* The CSV ingestion cells of Analysis.ipynb: glob the data folder, read   *)
(* every CSV with pd.read_csv(path, skiprows=8), tag the rows with the     *)
(* path, collect the frames and pd.concat them into full_df.               *)
(*                                                                         *)
(* A file is a sequence of lines; a line is [nf, net]: the number of       *)
(* comma-separated fields on it (0 for a blank line) and the text of its   *)
(* 7th field, the net-exchange cell.  A row of a DataFrame is              *)
(* [line, nf, net, file_name]: line, the number of the source line it was  *)
(* read from, stands for the values of the row's other cells.  A           *)
(* DataFrame is the sequence of its rows; the position of a row is its     *)
(* index label (RangeIndex, and ignore_index=True in the concat).  The     *)
(* column names of the frames collected are kept beside them, in           *)
(* frame_columns, and those of full_df in columns.                         *)
(***************************************************************************)
EXTENDS Integers, Sequences, FiniteSets, TLC

VARIABLES dirExists, fs, pc, csv_files, i, all_dataframes, full_df, stdout, exc, norm_n, norm_prev,
          frame_columns, columns

vars == <<dirExists, fs, pc, csv_files, i, all_dataframes, full_df, stdout, exc, norm_n, norm_prev,
          frame_columns, columns>>

\* ---- program constants ----
DATA_FOLDER == "./data/raw_data/"
SKIPROWS == 8
NCOLS == 8
SENTINEL == "---"
NAN == "NaN"

\* ---- bounds of the model ----
MaxFiles == 2
MaxRows == 2
MaxLines == 3
MaxRecs == 3
MaxNorm == 2
MaxEntries == 5

\* ---- helpers ----
Max(a, b) == IF a >= b THEN a ELSE b

SeqsUpTo(S, n) == UNION {[1..k -> S] : k \in 0..n}

RECURSIVE Flatten(_)
Flatten(dfs) == IF dfs = <<>> THEN <<>> ELSE Head(dfs) \o Flatten(Tail(dfs))

\* ---- the files on disk ----
Line(n, v) == [nf |-> n, net |-> v]
Blank == Line(0, "")
Meta == Line(1, "")

Preamble(k) == [j \in 1..k |-> Meta]

\* files too short to hold anything after the skipped lines
ShortFiles(lens) == {Preamble(k) : k \in lens}

\* SKIPROWS lines of metadata, then 1..n lines drawn from kinds
FullFiles(kinds, n) == {Preamble(SKIPROWS) \o b : b \in SeqsUpTo(kinds, n) \ {<<>>}}

BuildKinds == {Line(NCOLS, SENTINEL), Line(NCOLS + 1, SENTINEL)}
BuildFiles == ShortFiles({0, SKIPROWS - 1, SKIPROWS}) \cup FullFiles(BuildKinds, MaxRows + 1)

ParseKinds == {Blank} \cup {Line(n, v) : n \in {NCOLS - 1, NCOLS, NCOLS + 1}, v \in {SENTINEL, "1.5"}}
ParseFiles == ShortFiles(0..SKIPROWS) \cup FullFiles(ParseKinds, MaxLines)

OtherFile == Preamble(SKIPROWS) \o <<Line(NCOLS, SENTINEL), Line(NCOLS, SENTINEL)>>

Entries(files) == {[ext |-> "csv", hidden |-> FALSE, lines |-> f] : f \in files} \cup {[ext |-> "txt", hidden |-> FALSE, lines |-> OtherFile]}

Path(k, e) == [folder |-> DATA_FOLDER, name |-> k, ext |-> e]

Content(path) == fs[path.name].lines

\* ---- glob.glob(os.path.join(DATA_FOLDER, "*.csv")) ----
\* "*" does not match a name that begins with a dot
Matches_ext(listing) ==
  LET idx == [k \in 1..Len(listing) |-> k]
      IsCsv(k) == listing[k].ext = "csv"
      hit == SelectSeq(idx, IsCsv)
  IN [j \in 1..Len(hit) |-> Path(hit[j], listing[hit[j]].ext)]

Matches(listing) ==
  LET idx == [k \in 1..Len(listing) |-> k]
      IsCsv(k) == listing[k].ext = "csv" /\ ~listing[k].hidden
      hit == SelectSeq(idx, IsCsv)
  IN [j \in 1..Len(hit) |-> Path(hit[j], listing[hit[j]].ext)]

glob_raising(exists, listing) ==
  IF exists THEN [exc |-> "none", files |-> Matches(listing)]
  ELSE [exc |-> "IOError", files |-> <<>>]

glob(exists, listing) ==
  [exc |-> "none", files |-> IF exists THEN Matches(listing) ELSE <<>>]

\* ---- the column names of a frame ----
\* A name is its text and the blanks around it: ' Area' is Name(1, "Area", 0).
Name(l, core, t) == [lead |-> l, core |-> core, trail |-> t]

\* the header line of the files, as full_df.columns shows it
HEADER ==
  << Name(0, "Sistema", 0),
     Name(1, "Area", 0),
     Name(1, "Hora", 0),
     Name(1, "Generacion (MWh)", 0),
     Name(1, "Importacion Total (MWh)", 0),
     Name(1, "Exportacion Total (MWh)", 0),
     Name(1, "Intercambio neto entre Gerencias (MWh)", 0),
     Name(1, "Estimacion de Demanda por Balance (MWh)", 1) >>

\* a header line that carries the texts of its fields
HeaderLine(names) == [nf |-> Len(names), net |-> "", names |-> names]

\* The names read_csv gives the columns are the texts of the header line's
\* fields as they stand; the fields of a line whose texts the model does not
\* carry are named by their position.
ColumnNames(line) ==
  IF "names" \in DOMAIN line THEN line.names
  ELSE [j \in 1..line.nf |-> Name(0, ToString(j), 0)]

\* ---- pd.read_csv(path, skiprows=8) ----
\* The numbers of the lines the tokenizer keeps: the first skip lines of the
\* file are dropped as they stand, and so is every blank line after them.
KeptAfter(lines, skip) ==
  LET idx == [k \in 1..Len(lines) |-> k]
      Keep(k) == k > skip /\ lines[k].nf > 0
  IN SelectSeq(idx, Keep)

\* The first header kept lines name the columns and the rest are the rows.
\* Nothing kept: EmptyDataError ("No columns to parse from file").  A row
\* with fewer fields than expected is padded; from the second row on, a row
\* with more fields is a ParserError ("Expected n fields in line k, saw
\* m"); a wider first row only adds index columns.
Tokenize(lines, kept, header) ==
  LET data == SubSeq(kept, header + 1, Len(kept))
      expected == IF data = <<>> THEN lines[kept[1]].nf
                  ELSE Max(lines[kept[1]].nf, lines[data[1]].nf)
  IN IF kept = <<>> THEN [exc |-> "EmptyDataError", rows |-> <<>>, columns |-> <<>>]
     ELSE IF \E j \in 2..Len(data) : lines[data[j]].nf > expected
          THEN [exc |-> "ParserError", rows |-> <<>>, columns |-> <<>>]
          ELSE [exc |-> "none",
                rows |-> [j \in 1..Len(data) |->
                           [line |-> data[j], nf |-> lines[data[j]].nf, net |-> lines[data[j]].net]],
                columns |-> IF header = 0 THEN ColumnNames(Line(lines[kept[1]].nf, ""))
                            ELSE ColumnNames(lines[kept[1]])]

read_csv_noskip(lines) == Tokenize(lines, KeptAfter(lines, 0), 1)

read_csv_noheader(lines) == Tokenize(lines, KeptAfter(lines, SKIPROWS), 0)

read_csv(lines) == Tokenize(lines, KeptAfter(lines, SKIPROWS), 1)

add_file_name_basename(path, lines) ==
  LET r == read_csv(lines)
  IN [exc |-> r.exc,
      rows |-> [j \in 1..Len(r.rows) |->
                 [line |-> r.rows[j].line, nf |-> r.rows[j].nf, net |-> r.rows[j].net,
                  file_name |-> [path EXCEPT !.folder = ""]]]]

add_file_name(path, lines) ==
  LET r == read_csv(lines)
  IN [exc |-> r.exc,
      rows |-> [j \in 1..Len(r.rows) |->
                 [line |-> r.rows[j].line, nf |-> r.rows[j].nf, net |-> r.rows[j].net,
                  file_name |-> path]]]

read_csv_columns(lines) == read_csv(lines).columns

\* df["file_name"] = path appends the column
add_file_name_columns(lines) == Append(read_csv_columns(lines), Name(0, "file_name", 0))

\* pd.concat keeps the union of the frames' columns, in order of first appearance
UnionColumns(names) ==
  LET idx == [k \in 1..Len(names) |-> k]
      IsFirst(k) == \A m \in 1..(k - 1) : names[m] # names[k]
      keep == SelectSeq(idx, IsFirst)
  IN [j \in 1..Len(keep) |-> names[keep[j]]]

concat_columns(cols) == UnionColumns(Flatten(cols))

\* ---- pd.concat(all_dataframes, ignore_index=True) ----
RECURSIVE FlattenReversed(_)
FlattenReversed(dfs) == IF dfs = <<>> THEN <<>> ELSE FlattenReversed(Tail(dfs)) \o Head(dfs)

concat_reversed(dfs) ==
  IF dfs = <<>> THEN [exc |-> "ValueError", rows |-> <<>>]
  ELSE [exc |-> "none", rows |-> FlattenReversed(dfs)]

concat_first(dfs) ==
  IF dfs = <<>> THEN [exc |-> "ValueError", rows |-> <<>>]
  ELSE [exc |-> "none", rows |-> Head(dfs)]

concat(dfs) ==
  IF dfs = <<>> THEN [exc |-> "ValueError", rows |-> <<>>]
  ELSE [exc |-> "none", rows |-> Flatten(dfs)]

Unbound == [bound |-> FALSE, rows |-> <<>>]
Bound(rows) == [bound |-> TRUE, rows |-> rows]

\* ---- initial states ----
Directories(entries, n) == SeqsUpTo(entries, n)

Fresh ==
  /\ pc = "discover"
  /\ csv_files = <<>>
  /\ i = 1
  /\ all_dataframes = <<>>
  /\ full_df = Unbound
  /\ stdout = <<>>
  /\ exc = "none"
  /\ norm_n = 0
  /\ norm_prev = <<>>
  /\ frame_columns = <<>>
  /\ columns = <<>>

Init ==
  /\ dirExists \in BOOLEAN
  /\ fs \in (IF dirExists THEN Directories(Entries(BuildFiles), MaxFiles) ELSE {<<>>})
  /\ Fresh

InitParse ==
  /\ dirExists = TRUE
  /\ fs \in {<<[ext |-> "csv", hidden |-> FALSE, lines |-> f]>> : f \in ParseFiles}
  /\ Fresh

\* ---- the cells ----
Discover ==
  /\ pc = "discover"
  /\ LET r == glob(dirExists, fs)
     IN IF r.exc # "none"
        THEN /\ pc' = "raised"
             /\ exc' = r.exc
             /\ UNCHANGED <<csv_files, stdout>>
        ELSE /\ csv_files' = r.files
             /\ stdout' = Append(stdout, [kind |-> "found", n |-> Len(r.files)])
             /\ pc' = "loop"
             /\ UNCHANGED exc
  /\ UNCHANGED <<dirExists, fs, i, all_dataframes, full_df, norm_n, norm_prev, frame_columns, columns>>

ReadOk ==
  /\ pc = "loop"
  /\ i <= Len(csv_files)
  /\ LET r == add_file_name(csv_files[i], Content(csv_files[i]))
     IN /\ r.exc = "none"
        /\ all_dataframes' = Append(all_dataframes, r.rows)
        /\ frame_columns' = Append(frame_columns, add_file_name_columns(Content(csv_files[i])))
  /\ i' = i + 1
  /\ UNCHANGED <<dirExists, fs, pc, csv_files, full_df, stdout, exc, norm_n, norm_prev, columns>>

ReadFail_abort ==
  /\ pc = "loop"
  /\ i <= Len(csv_files)
  /\ LET r == add_file_name(csv_files[i], Content(csv_files[i]))
     IN /\ r.exc # "none"
        /\ exc' = r.exc
  /\ pc' = "raised"
  /\ UNCHANGED <<dirExists, fs, csv_files, i, all_dataframes, full_df, stdout, norm_n, norm_prev, frame_columns, columns>>

ReadFail_silent ==
  /\ pc = "loop"
  /\ i <= Len(csv_files)
  /\ add_file_name(csv_files[i], Content(csv_files[i])).exc # "none"
  /\ i' = i + 1
  /\ UNCHANGED <<dirExists, fs, pc, csv_files, all_dataframes, full_df, stdout, exc, norm_n, norm_prev, frame_columns, columns>>

ReadFail_retry ==
  /\ pc = "loop"
  /\ i <= Len(csv_files)
  /\ add_file_name(csv_files[i], Content(csv_files[i])).exc # "none"
  /\ UNCHANGED vars

ReadFail ==
  /\ pc = "loop"
  /\ i <= Len(csv_files)
  /\ LET r == add_file_name(csv_files[i], Content(csv_files[i]))
     IN /\ r.exc # "none"
        /\ stdout' = Append(stdout, [kind |-> "failed", file |-> csv_files[i], e |-> r.exc])
  /\ i' = i + 1
  /\ UNCHANGED <<dirExists, fs, pc, csv_files, all_dataframes, full_df, exc, norm_n, norm_prev, frame_columns, columns>>

LoopExit ==
  /\ pc = "loop"
  /\ i > Len(csv_files)
  /\ pc' = "concat"
  /\ UNCHANGED <<dirExists, fs, csv_files, i, all_dataframes, full_df, stdout, exc, norm_n, norm_prev, frame_columns, columns>>

ConcatOk ==
  /\ pc = "concat"
  /\ LET r == concat(all_dataframes)
     IN /\ r.exc = "none"
        /\ full_df' = Bound(r.rows)
  /\ columns' = concat_columns(frame_columns)
  /\ pc' = "done"
  /\ UNCHANGED <<dirExists, fs, csv_files, i, all_dataframes, stdout, exc, norm_n, norm_prev, frame_columns>>

ConcatRaise ==
  /\ pc = "concat"
  /\ LET r == concat(all_dataframes)
     IN /\ r.exc # "none"
        /\ exc' = r.exc
  /\ pc' = "raised"
  /\ UNCHANGED <<dirExists, fs, csv_files, i, all_dataframes, full_df, stdout, norm_n, norm_prev, frame_columns, columns>>

Next == Discover \/ ReadOk \/ ReadFail \/ LoopExit \/ ConcatOk \/ ConcatRaise

Spec == Init /\ [][Next]_vars

SpecParse == InitParse /\ [][Next]_vars

\* The cells run in one thread, each statement to its end: a step that can be
\* taken is taken.
LiveFiles == ShortFiles({SKIPROWS}) \cup FullFiles(BuildKinds, MaxRows)

InitLive ==
  /\ dirExists \in BOOLEAN
  /\ fs \in (IF dirExists THEN Directories(Entries(LiveFiles), MaxFiles) ELSE {<<>>})
  /\ Fresh

SpecLive == InitLive /\ [][Next]_vars /\ WF_vars(Next)

\* files with the header line of the source files, as it stands or with its
\* names already free of blanks, and up to MaxRows data lines
StripName(name) == [name EXCEPT !.lead = 0, !.trail = 0]

HeaderLines == {HeaderLine(HEADER), HeaderLine([j \in 1..Len(HEADER) |-> StripName(HEADER[j])])}

ColsFiles ==
  ShortFiles({0, SKIPROWS}) \cup
  {Preamble(SKIPROWS) \o <<h>> \o d : h \in HeaderLines, d \in SeqsUpTo(BuildKinds, MaxRows)}

InitCols ==
  /\ dirExists = TRUE
  /\ fs \in Directories({[ext |-> "csv", hidden |-> FALSE, lines |-> f] : f \in ColsFiles}, MaxFiles)
  /\ Fresh

SpecCols == InitCols /\ [][Next]_vars

\* a folder of up to MaxEntries entries: CSV files that can be read or not, a
\* CSV file whose name begins with a dot, a file that is no CSV
ListingKinds ==
  { [ext |-> "csv", hidden |-> FALSE, lines |-> OtherFile],
    [ext |-> "csv", hidden |-> FALSE, lines |-> Preamble(0)],
    [ext |-> "csv", hidden |-> TRUE, lines |-> OtherFile],
    [ext |-> "txt", hidden |-> FALSE, lines |-> OtherFile] }

InitDiscover ==
  /\ dirExists \in BOOLEAN
  /\ fs \in (IF dirExists THEN Directories(ListingKinds, MaxEntries) ELSE {<<>>})
  /\ Fresh

SpecDiscover == InitDiscover /\ [][Next]_vars

\* ---- normalize: "---" in the net-exchange column becomes np.nan ----
normalize_swap(rows) ==
  [j \in 1..Len(rows) |->
    IF rows[j].net = SENTINEL THEN [rows[j] EXCEPT !.net = NAN]
    ELSE IF rows[j].net = NAN THEN [rows[j] EXCEPT !.net = SENTINEL]
    ELSE rows[j]]

normalize_strip(rows) ==
  [j \in 1..Len(rows) |->
    IF rows[j].net \in {SENTINEL, " ---"} THEN [rows[j] EXCEPT !.net = NAN] ELSE rows[j]]

normalize(rows) ==
  [j \in 1..Len(rows) |->
    IF rows[j].net = SENTINEL THEN [rows[j] EXCEPT !.net = NAN] ELSE rows[j]]

Normalize ==
  /\ pc \in {"done", "normalized"}
  /\ full_df.bound
  /\ norm_n < MaxNorm
  /\ full_df' = Bound(normalize(full_df.rows))
  /\ norm_prev' = full_df.rows
  /\ norm_n' = norm_n + 1
  /\ pc' = "normalized"
  /\ UNCHANGED <<dirExists, fs, csv_files, i, all_dataframes, stdout, exc, frame_columns, columns>>

\* The state the cells leave behind for one valid file whose rows carry the
\* net-exchange cells vs.
NormCells == {SENTINEL, NAN, "1.5", " ---"}

InitNorm ==
  \E vs \in SeqsUpTo(NormCells, MaxRecs) \ {<<>>} :
    LET lines == Preamble(SKIPROWS) \o <<Line(NCOLS, "")>> \o [j \in 1..Len(vs) |-> Line(NCOLS, vs[j])]
        path == Path(1, "csv")
        df == add_file_name(path, lines).rows
    IN /\ dirExists = TRUE
       /\ fs = <<[ext |-> "csv", hidden |-> FALSE, lines |-> lines]>>
       /\ pc = "done"
       /\ csv_files = <<path>>
       /\ i = 2
       /\ all_dataframes = <<df>>
       /\ full_df = Bound(concat(<<df>>).rows)
       /\ stdout = <<[kind |-> "found", n |-> 1]>>
       /\ exc = "none"
       /\ norm_n = 0
       /\ norm_prev = <<>>
       /\ frame_columns = <<add_file_name_columns(lines)>>
       /\ columns = concat_columns(<<add_file_name_columns(lines)>>)

NextNorm == Normalize

SpecNorm == InitNorm /\ [][NextNorm]_vars

\* ---- what the claims speak of ----
\* the read loop has ended (the cell has run to its end)
LoopOver == pc \in {"concat", "done", "raised"} /\ i > Len(csv_files)

\* the files the loop has been through
Processed == 1..(i - 1)

\* the outcome of reading the k-th discovered file, from the file's lines alone:
\* nothing is left after the skipped lines, or a row from the second on is wider
\* than the header and the first row
Unreadable(lines) ==
  \/ \A k \in 1..Len(lines) : k <= SKIPROWS \/ lines[k].nf = 0
  \/ \E h, d, k \in (SKIPROWS + 1)..Len(lines) :
       /\ h < d /\ d < k
       /\ lines[h].nf > 0 /\ lines[d].nf > 0
       /\ \A m \in (SKIPROWS + 1)..(d - 1) : m = h \/ lines[m].nf = 0
       /\ lines[k].nf > lines[h].nf /\ lines[k].nf > lines[d].nf

Fails(k) == Unreadable(Content(csv_files[k]))

\* the data lines of a readable file: the non-blank lines after the header
DataLines(lines) ==
  LET kept == {k \in 1..Len(lines) : k > SKIPROWS /\ lines[k].nf > 0}
  IN {k \in kept : \E h \in kept : h < k}

RowCount(k) == IF Fails(k) THEN 0 ELSE Cardinality(DataLines(Content(csv_files[k])))

RECURSIVE SumRowCount(_)
SumRowCount(n) == IF n = 0 THEN 0 ELSE RowCount(n) + SumRowCount(n - 1)

RowsFrom(rows, path) == LET From(r) == r.file_name = path IN SelectSeq(rows, From)

Diagnostics == LET Failed(m) == m.kind = "failed" IN SelectSeq(stdout, Failed)

FileIndex(path) == CHOOSE k \in 1..Len(csv_files) : csv_files[k] = path

\* C1: once the concat has run, full_df has as many rows as the files that were
\* read without error have data rows, file by file: none dropped, none twice,
\* none from a file whose read failed.
ThmC1 ==
  pc = "done" =>
    /\ full_df.bound
    /\ Len(full_df.rows) = SumRowCount(Len(csv_files))
    /\ \A k \in 1..Len(csv_files) : Len(RowsFrom(full_df.rows, csv_files[k])) = RowCount(k)

WitC1 ==
  /\ pc = "done"
  /\ \E k, m \in 1..Len(csv_files) : Fails(k) /\ ~Fails(m) /\ RowCount(m) = 2
  /\ Len(full_df.rows) = 2

\* C2: a file whose read fails does not end the loop: the loop goes through
\* every discovered file, the frame of every readable file is collected
\* whatever failed before it, and no read error is left raised.
ThmC2 ==
  /\ exc \notin {"EmptyDataError", "ParserError"}
  /\ pc = "loop" => i <= Len(csv_files) + 1
  /\ pc \in {"concat", "done", "raised"} /\ exc # "IOError" => i = Len(csv_files) + 1
  /\ Len(all_dataframes) = Cardinality({k \in Processed : ~Fails(k)})
  /\ LoopOver =>
       \A k \in 1..Len(csv_files) :
         ~Fails(k) => \E d \in 1..Len(all_dataframes) :
                        /\ Len(all_dataframes[d]) = RowCount(k)
                        /\ \A j \in 1..Len(all_dataframes[d]) :
                             all_dataframes[d][j].file_name = csv_files[k]

WitC2 ==
  /\ pc = "done"
  /\ \E k, m \in 1..Len(csv_files) : k < m /\ Fails(k) /\ ~Fails(m) /\ RowCount(m) > 0
  /\ Len(full_df.rows) > 0

\* C3: the "Failed to read" messages are the diagnostics: when the loop is over
\* there is exactly one for each file whose read failed, naming that file, and
\* none for a file that was read.
ThmC3 ==
  /\ \A d \in 1..Len(Diagnostics) :
       \E k \in Processed : Diagnostics[d].file = csv_files[k] /\ Fails(k)
  /\ \A k \in Processed :
       LET About(m) == m.file = csv_files[k]
       IN Len(SelectSeq(Diagnostics, About)) = IF Fails(k) THEN 1 ELSE 0
  /\ LoopOver => Len(Diagnostics) = Cardinality({k \in 1..Len(csv_files) : Fails(k)})

WitC3 ==
  /\ pc = "done"
  /\ Len(csv_files) = 2
  /\ ~Fails(1) /\ Fails(2)
  /\ Len(Diagnostics) = 1
  /\ Diagnostics[1].file = csv_files[2]

\* C4 (as claimed): when no file was read, the run ends with full_df bound to an
\* empty Dataset and nothing raised.
CexC4 ==
  (pc \in {"done", "raised"} /\ all_dataframes = <<>>) =>
    (pc = "done" /\ exc = "none" /\ full_df = Bound(<<>>))

ThmC6 ==
  full_df.bound =>
    \A a, b \in 1..Len(full_df.rows) :
      a < b =>
        LET fa == FileIndex(full_df.rows[a].file_name)
            fb == FileIndex(full_df.rows[b].file_name)
        IN \/ fa < fb
           \/ fa = fb /\ full_df.rows[a].line < full_df.rows[b].line

WitC6 ==
  /\ pc = "done"
  /\ Len(all_dataframes) = 2
  /\ Len(all_dataframes[1]) = 2
  /\ Len(all_dataframes[2]) >= 1
  /\ Len(full_df.rows) >= 3

\* C7: every row collected, and every row of full_df, carries as file_name the
\* path of one discovered file, and it is a row of that file: its cells are
\* those of a data line of the file.
TaggedRight(r) ==
  \E k \in 1..Len(csv_files) :
    /\ r.file_name = csv_files[k]
    /\ r.file_name = Path(csv_files[k].name, "csv")
    /\ r.line \in DataLines(Content(csv_files[k]))
    /\ Content(csv_files[k])[r.line] = Line(r.nf, r.net)

ThmC7 ==
  /\ \A d \in 1..Len(all_dataframes) : \A j \in 1..Len(all_dataframes[d]) :
       TaggedRight(all_dataframes[d][j])
  /\ \A j \in 1..Len(full_df.rows) : TaggedRight(full_df.rows[j])

WitC7 ==
  /\ pc = "done"
  /\ \E a, b \in 1..Len(full_df.rows) :
       full_df.rows[a].file_name # full_df.rows[b].file_name

\* C8: a valid file has the SKIPROWS leading lines, then a header line and data
\* lines of NCOLS fields each, none blank.
Valid(lines) ==
  /\ Len(lines) >= SKIPROWS + 1
  /\ \A k \in (SKIPROWS + 1)..Len(lines) : lines[k].nf = NCOLS

TheFile == fs[1].lines

\* C8 (as claimed): reading a valid file gives its line count minus 8 rows.
CexC8 ==
  (i = 2 /\ Valid(TheFile)) =>
    (Len(all_dataframes) = 1 /\ Len(all_dataframes[1]) = Len(TheFile) - SKIPROWS)

\* C8 (amended): reading a valid file gives its line count minus 9 rows: the 8
\* skipped lines and the header line are not rows.
ThmC8 ==
  (i = 2 /\ Valid(TheFile)) =>
    (Len(all_dataframes) = 1 /\ Len(all_dataframes[1]) = Len(TheFile) - SKIPROWS - 1)

WitC8 == i = 2 /\ Valid(TheFile) /\ Len(TheFile) = SKIPROWS + 3 /\ Len(all_dataframes[1]) = 2

\* C9: what a file that was rejected leaves behind: a message, and no row.
Rejected(k) ==
  /\ \E d \in 1..Len(Diagnostics) : Diagnostics[d].file = csv_files[k]
  /\ \A d \in 1..Len(all_dataframes) : \A j \in 1..Len(all_dataframes[d]) :
       all_dataframes[d][j].file_name # csv_files[k]
  /\ \A j \in 1..Len(full_df.rows) : full_df.rows[j].file_name # csv_files[k]

ThmC10 ==
  pc = "normalized" =>
    /\ normalize(full_df.rows) = full_df.rows
    /\ norm_n >= 2 => full_df.rows = norm_prev
    /\ \A j \in 1..Len(full_df.rows) : full_df.rows[j].net # SENTINEL

WitC10 ==
  /\ pc = "normalized"
  /\ norm_n = 2
  /\ \E j \in 1..Len(all_dataframes[1]) : all_dataframes[1][j].net = SENTINEL
  /\ \E j \in 1..Len(full_df.rows) : full_df.rows[j].net = NAN

\* C11: normalize keeps the rows and their order; a row changes only in its
\* net-exchange cell, and only from "---" to the missing-value marker.
SameButNet(r, q) == r.file_name = q.file_name /\ r.line = q.line /\ r.nf = q.nf

ThmC11 ==
  pc = "normalized" =>
    /\ Len(full_df.rows) = Len(norm_prev)
    /\ Len(full_df.rows) = Len(all_dataframes[1])
    /\ \A j \in 1..Len(full_df.rows) :
         /\ SameButNet(full_df.rows[j], norm_prev[j])
         /\ SameButNet(full_df.rows[j], all_dataframes[1][j])
         /\ \/ full_df.rows[j].net = norm_prev[j].net /\ norm_prev[j].net # SENTINEL
            \/ full_df.rows[j].net = NAN /\ norm_prev[j].net = SENTINEL
         /\ \/ full_df.rows[j].net = all_dataframes[1][j].net
            \/ full_df.rows[j].net = NAN /\ all_dataframes[1][j].net = SENTINEL

WitC11 ==
  /\ pc = "normalized"
  /\ norm_n = 1
  /\ Len(full_df.rows) = 3
  /\ norm_prev[1].net = SENTINEL /\ full_df.rows[1].net = NAN
  /\ norm_prev[2].net = " ---" /\ full_df.rows[2].net = " ---"
  /\ norm_prev[3].net = "1.5" /\ full_df.rows[3].net = "1.5"

\* C12 (as claimed): the column names of the frames read, and of full_df, carry
\* no blank at either end.
Trimmed(name) == name.lead = 0 /\ name.trail = 0

CexC12 ==
  /\ \A d \in 1..Len(frame_columns) : \A j \in 1..Len(frame_columns[d]) :
       Trimmed(frame_columns[d][j])
  /\ \A j \in 1..Len(columns) : Trimmed(columns[j])

\* C13: how often the k-th entry of the folder is among the discovered files
Returned(k) ==
  Cardinality({j \in 1..Len(csv_files) : csv_files[j].name = k})

Discovered == pc # "discover" /\ exc # "IOError"

FromFolder ==
  \A j \in 1..Len(csv_files) :
    /\ csv_files[j].name \in 1..Len(fs)
    /\ csv_files[j] = Path(csv_files[j].name, fs[csv_files[j].name].ext)

\* C13 (as claimed): the discovered files are the entries of the folder whose
\* extension is csv, each once, and no other.
CexC13 ==
  Discovered =>
    /\ FromFolder
    /\ \A k \in 1..Len(fs) : Returned(k) = IF fs[k].ext = "csv" THEN 1 ELSE 0

\* C13 (amended): the discovered files are the entries of the folder whose
\* extension is csv and whose name does not begin with a dot, each once, in
\* the order of the listing, and no other.
ThmC13 ==
  Discovered =>
    /\ FromFolder
    /\ \A k \in 1..Len(fs) :
         Returned(k) = IF fs[k].ext = "csv" /\ ~fs[k].hidden THEN 1 ELSE 0
    /\ \A a, b \in 1..Len(csv_files) : a < b => csv_files[a].name < csv_files[b].name

WitC13 ==
  /\ pc = "loop"
  /\ Len(fs) = 5
  /\ Cardinality({k \in 1..Len(fs) : fs[k].ext = "csv" /\ ~fs[k].hidden}) = 3
  /\ \E k \in 1..Len(fs) : fs[k].ext = "csv" /\ fs[k].hidden
  /\ \E k \in 1..Len(fs) : fs[k].ext = "txt"
  /\ Len(csv_files) = 3

\* C14: the run has ended, with full_df bound or with the concat's error
Terminated == pc \in {"done", "raised"}

\* the k-th discovered file has exactly one of the two outcomes: its rows are
\* in the frames collected (and in full_df, once bound) and no message names
\* it, or one message names it and no row is from it
Appended(k) ==
  /\ \A d \in 1..Len(Diagnostics) : Diagnostics[d].file # csv_files[k]
  /\ Len(RowsFrom(Flatten(all_dataframes), csv_files[k])) = RowCount(k)
  /\ full_df.bound => Len(RowsFrom(full_df.rows, csv_files[k])) = RowCount(k)

Reported(k) ==
  /\ LET About(m) == m.file = csv_files[k] IN Len(SelectSeq(Diagnostics, About)) = 1
  /\ RowsFrom(Flatten(all_dataframes), csv_files[k]) = <<>>
  /\ RowsFrom(full_df.rows, csv_files[k]) = <<>>

OnceEach ==
  /\ i = Len(csv_files) + 1
  /\ Len(all_dataframes) + Len(Diagnostics) = Len(csv_files)
  /\ \A k \in 1..Len(csv_files) :
       /\ Appended(k) \/ Reported(k)
       /\ Fails(k) <=> Reported(k)
       /\ ~Fails(k) <=> Appended(k)

\* C14: every run ends, and when it has ended every discovered file has been
\* through the loop once, with exactly one of the two outcomes.
ThmC14 == <>(Terminated /\ OnceEach) /\ [](Terminated => OnceEach)

WitC14 ==
  /\ Terminated
  /\ Len(csv_files) >= 2
  /\ \E k, m \in 1..Len(csv_files) : Appended(k) /\ RowCount(k) > 0 /\ Reported(m)

====
